---- MODULE Spec2Model ----
(***************************************************************************)
(* Speech segmentation and transcription dispatch of the audio companion   *)
(* renderer (electron-audio-companion/renderer-improved.js).               *)
(*                                                                         *)
(* Time is in milliseconds.  The renderer is single threaded: every timer  *)
(* callback and every promise continuation is one atomic action.  The      *)
(* interval timers fire on their period; the clock only advances once all  *)
(* timers that are due at the current instant have fired.                  *)
(***************************************************************************)
EXTENDS Integers, Sequences, FiniteSets, TLC

VARIABLES
    now,                  \* Date.now()
    level,                \* what the audio source carries in the current window
    scope,                \* how far this behaviour is followed
    fired,                \* global interval timers that already ran at this instant
    tickStarted,          \* some timer callback already ran at this instant
    commanded,            \* a start or stop command already arrived in this window
    firedMon,             \* monitoring timers that already ran at this instant
    firedRec,             \* recorders whose timeslice event already ran at this instant
    silenceThreshold,     \* this.silenceThreshold
    minSpeechDuration,    \* this.minSpeechDuration
    openAIApiKey,         \* this.openAIApiKey
    whisperReady,         \* this.whisperReady
    chunkBytes,           \* event.data.size of a full recorder timeslice
    sourcePeak,           \* largest sample amplitude the audio source delivers, in 1/10000
    texts,                \* the transcripts the service may return in this behaviour
    isRecording,          \* this.isRecording
    audioContext,         \* this.audioContext: "null", "running", "closing", "closed"
    analyser,             \* this.analyser !== null
    monitorTimers,        \* number of live setInterval(checkSpeechActivity) timers
    monitoringInterval,   \* TRUE iff this.monitoringInterval names a live timer
    recorders,            \* MediaRecorders in state "recording" (named by session)
    mediaRecorder,        \* session of this.mediaRecorder, 0 when null
    finalData,            \* recorders stopped whose last dataavailable is still to come
    startPend,            \* startCapture calls awaiting getUserMedia / getDisplayMedia
    stopPend,             \* stopCapture calls awaiting audioContext.close()
    sessions,             \* number of startCapture calls that passed the guard
    nChunks,              \* number of dataavailable events so far
    isSpeaking,           \* this.isSpeaking
    speechStartTime,      \* this.speechStartTime
    lastSpeechTime,       \* this.lastSpeechTime
    speechBuffer,         \* this.speechBuffer
    pendingAudioChunks,   \* this.pendingAudioChunks
    lastBufferFlushTime,  \* this.lastBufferFlushTime
    transcriptionQueue,   \* this.transcriptionQueue
    isProcessingQueue,    \* this.isProcessingQueue
    calls,                \* transcribeWithOpenAI calls that are awaiting
    nCalls,               \* number of Blobs built by the flush paths
    clips,                \* log: every Blob built by a flush path
    submitted,            \* log: every fetch() to the transcription endpoint
    lastTranscriptions,   \* this.lastTranscriptions
    lastEvicted,          \* log: the entry shift() removed from the history last
    results,              \* log: the two most recent returns of transcribeWithOpenAI
    openSpans,            \* log: "Speech started" lines minus "Speech ended" lines
    lastEnd,              \* log: the "Speech ended" line of the span closed last
    permissionStatus,     \* this.permissionStatusEl.textContent
    isCapturing,          \* main process: this.isCapturing
    connectedClients,     \* main process: number of WebSocket clients connected
    isListening,          \* UI: isListening
    electronWebSocket,    \* UI: state of the WebSocket task, "open" or "closed"
    toMain,               \* WebSocket messages on their way from the UI to the main process
    toUI,                 \* WebSocket messages on their way from the main process to the UI
    ipc,                  \* IPC messages on their way from the main process to the renderer
    notified,             \* log: the types of the messages the main process sent to its clients
    clicks,               \* log: number of clicks on the Coach and Start Over buttons
    restarts,             \* log: number of restarts of the companion
    sentLog,              \* log: the most recent transcripts sent as transcriptionResult
    buffer,               \* the AudioBuffer handed to audioBufferToWav
    arrayBuffer,          \* the bytes audioBufferToWav returned
    previousWav,          \* log: the input and the header of the run before
    strings,              \* the two strings handed to calculateSimilarity
    similarityValue,      \* what calculateSimilarity returned
    isProcessingAI,       \* UI: isProcessingAI
    currentAITask,        \* UI: the task currentAITask refers to, 0 when nil
    interviewMode,        \* UI: interviewMode
    aiTasks,              \* UI: the analysis tasks that have not returned
    restartDue,           \* UI: the startInterviewCoaching that Start Over scheduled is to come
    nTasks                \* log: number of analysis tasks created

vars == << now, level, scope, fired, tickStarted, commanded, firedMon, firedRec, silenceThreshold, minSpeechDuration,
           openAIApiKey, whisperReady, chunkBytes, isRecording, audioContext,
           analyser, monitorTimers, monitoringInterval, recorders, mediaRecorder,
           finalData, startPend, stopPend, sessions, nChunks, isSpeaking,
           speechStartTime, lastSpeechTime, speechBuffer, pendingAudioChunks,
           lastBufferFlushTime, transcriptionQueue, isProcessingQueue, calls,
           nCalls, clips, submitted, openSpans, lastEnd, sourcePeak, texts,
           lastTranscriptions, lastEvicted, results, permissionStatus, isCapturing,
           connectedClients, isListening, electronWebSocket, toMain, toUI, ipc,
           notified, clicks, restarts, sentLog, buffer, arrayBuffer, previousWav,
           strings, similarityValue, isProcessingAI, currentAITask, interviewMode,
           aiTasks, restartDue, nTasks >>

timeVars    == << now, level, fired, tickStarted, commanded, firedMon, firedRec >>
configVars  == << scope, silenceThreshold, minSpeechDuration, openAIApiKey, whisperReady, chunkBytes,
                 sourcePeak, texts >>
sessionVars == << isRecording, audioContext, analyser, monitorTimers, monitoringInterval,
                  recorders, mediaRecorder, finalData, startPend, stopPend, sessions,
                  permissionStatus >>
detectVars  == << isSpeaking, speechStartTime, lastSpeechTime, openSpans, lastEnd >>
bufferVars  == << speechBuffer, pendingAudioChunks, lastBufferFlushTime >>
queueVars   == << transcriptionQueue, isProcessingQueue >>
callVars    == << calls, nCalls, clips, submitted >>
filterVars  == << lastTranscriptions, lastEvicted, results, sentLog >>
mainVars    == << isCapturing, connectedClients, notified, restarts >>
uiVars      == << isListening, electronWebSocket, clicks >>
wireVars    == << toMain, toUI, ipc >>
companionVars == << mainVars, uiVars, wireVars >>
wavVars     == << buffer, arrayBuffer, previousWav >>
similarityVars == << strings, similarityValue >>
analysisVars == << isProcessingAI, currentAITask, interviewMode, aiTasks, restartDue, nTasks >>
\* the state of what is followed apart from the capture session
apartVars   == << wavVars, similarityVars, analysisVars >>

----------------------------------------------------------------------------
(* Bounds of the exploration *)

MaxTicks == 90           \* monitoring periods followed when capture runs uninterrupted
ShortTicks == 30         \* monitoring periods followed when capture is started and stopped
ReplyTicks == 60         \* monitoring periods followed when the service replies in every way
EnvEvery == 10           \* monitoring periods between two instants at which the
                         \* surroundings (sound, commands, replies) may act
MaxSessions == 2         \* startCapture requests that are let through
MaxClips == 2            \* Blobs built until the clock stops at the next window
MaxDirect == 2           \* blobs handed to transcribeWithOpenAI when it is followed on its own
MaxClicks == 4           \* clicks on the Coach and Start Over buttons
MaxAnalyses == 2         \* analysis tasks the UI creates
MaxRestarts == 1         \* restarts of the companion
DetectorTicks == 16      \* monitoring periods followed when the detector is followed on its own
MaxFrames == 2          \* frames of the AudioBuffers handed to audioBufferToWav
MaxLen == 3             \* characters of the strings handed to calculateSimilarity

(* Program constants *)

StartTime == 6000                 \* Date.now() when the page loads
MonitorInterval == 50             \* setInterval(checkSpeechActivity, 50)
BufferInterval == 100             \* setInterval(processBuffer, 100)
minTranscriptionInterval == 300   \* this.minTranscriptionInterval
Timeslice == 250                  \* mediaRecorder.start(250)
speechThreshold == 8              \* this.speechThreshold, in 1/1000
PeakThreshold == 50               \* normalizedMaxVolume > 0.05, in 1/1000
minAudioSizeForProcessing == 100000
maxBufferWaitTime == 3000
TimeoutMinSize == 10000           \* combinedBlob.size >= 10000
TinyClipSize == 1000              \* audioBlob.size < 1000
WavThreshold == 50000             \* audioBlob.size > 50000
maxTranscriptionHistory == 5      \* this.maxTranscriptionHistory
MinCharacters == 10               \* cleanedText.count >= 10
ShortResponse == 15               \* trimmed count < 15
PlaceholderKey == "YOUR_OPENAI_API_KEY"

(* Inputs *)

\* settings: the constructor's thresholds (600, 400) and those of config.js
\* (300, 200); a minimum duration above the silence threshold (300, 500);
\* an API key that is set, empty (the default of config.js) or the placeholder;
\* a 250 ms timeslice of 4000 bytes (128 kbit/s) or 22050 bytes (44.1 kHz,
\* 16 bit, mono); a source whose samples reach 0.3 or, for a faint one that
\* the analyser still registers, 0.0001
Settings ==
    { [silence |-> 600, minSpeech |-> 400, key |-> "sk-key", bytes |-> 4000, peak |-> 3000],
      [silence |-> 600, minSpeech |-> 400, key |-> "sk-key", bytes |-> 22050, peak |-> 3000],
      [silence |-> 300, minSpeech |-> 200, key |-> "sk-key", bytes |-> 22050, peak |-> 3000],
      [silence |-> 300, minSpeech |-> 500, key |-> "sk-key", bytes |-> 22050, peak |-> 1],
      [silence |-> 600, minSpeech |-> 400, key |-> "", bytes |-> 22050, peak |-> 3000],
      [silence |-> 300, minSpeech |-> 200, key |-> "YOUR_OPENAI_API_KEY", bytes |-> 4000, peak |-> 3000] }

\* what a window of sound can be: silence, speech throughout, one monitoring
\* period of speech at its start ("click"), or one transient at its start
\* that only shows in the peak volume ("pop")
Levels == { "silence", "speech", "click", "pop" }

\* what one monitoring period can carry when the detector is followed on its
\* own: silence, speech, a sound that only shows in the average volume
\* ("hum"), one that only shows in the peak volume ("crack"), and one whose
\* average and peak are exactly at the thresholds ("edge")
DetectorLevels == { "silence", "speech", "hum", "crack", "edge" }

\* how a fetch() of the transcription endpoint can end: a response that is
\* not ok, a rejected promise (network error), a body without text, a body
\* with text
Outcomes == { "error status", "network error", "no text", "text" }

\* either capture is started and stopped at will and followed for a short
\* time, or one session of speech and silence runs uninterrupted and is
\* followed for a long time, in which the service finds no text, or for a
\* shorter time with every kind of reply
Scopes ==
    { [ticks |-> ShortTicks, sessions |-> MaxSessions, stop |-> TRUE, levels |-> Levels,
       outcomes |-> Outcomes],
      [ticks |-> ReplyTicks, sessions |-> 1, stop |-> FALSE, levels |-> {"silence", "speech"},
       outcomes |-> Outcomes],
      [ticks |-> MaxTicks, sessions |-> 1, stop |-> FALSE, levels |-> {"silence", "speech"},
       outcomes |-> {"no text"}] }

NoEnd == [at |-> 0, duration |-> 0, silence |-> 0, called |-> FALSE]

\* no AudioBuffer has been handed to audioBufferToWav
NoBuffer == [length |-> 0, sampleRate |-> 0, numberOfChannels |-> 0, channels |-> << >>]

\* audioBufferToWav has not run before
NoWav == [buffer |-> NoBuffer, header |-> << >>]

\* calculateSimilarity has not run
NoSimilarity == [num |-> 0, den |-> -1]

\* the transcripts the service returns while capture sessions are followed
SessionTexts == { " Abcdef " }

\* the transcripts the service returns when the filters are followed on their
\* own, one vocabulary per behaviour: six short transcripts that differ
\* pairwise in at least one of five characters; transcripts one edit apart at
\* length five and at length six, and one that differs in case and blanks
\* only; the two transcripts of Scenario 3; a transcript without any
\* interview keyword and a question that contains it; one word said three
\* times and four times
Vocabularies ==
    { { "map", "set", "key", "sum", "bit", "row" },
      { "abcde", "abcdx", " ABCDE ", "abcdef" },
      { "let's talk about arrays", "lets talk about arrays" },
      { "we met at the market", "why we met at the market" },
      { "design design design", "design design design design" } }

\* the sizes of the blobs transcribeWithOpenAI is applied to on its own
BlobSizes == { 0, 999, 1000, 4999, 50000, 50001 }

----------------------------------------------------------------------------
(* Helpers *)

RECURSIVE TotalSize(_)
\* chunks.reduce((total, chunk) => total + chunk.size, 0), also Blob.size
TotalSize(chunks) ==
    IF chunks = << >> THEN 0 ELSE Head(chunks).size + TotalSize(Tail(chunks))

\* a test that a reading at the thresholds passes
speechDetectedAtThreshold(r) == r.avg >= speechThreshold \/ r.peak >= PeakThreshold

\* const speechDetected = averageVolume > this.speechThreshold || normalizedMaxVolume > 0.05
speechDetected(r) == r.avg > speechThreshold \/ r.peak > PeakThreshold

\* the onset without its isSpeaking test
SpeechStartsUnguarded(detected) == detected

\* if (!this.isSpeaking) inside the speechDetected branch: a new span opens
SpeechStarts(detected) == detected /\ ~isSpeaking

\* a silence test that switches to 500 ms once the span is longer than 2000 ms
SilenceExceededAdaptive(silenceTime) ==
    silenceTime > (IF lastSpeechTime - speechStartTime > 2000 THEN 500 ELSE silenceThreshold)

\* if (silenceTime > this.silenceThreshold)
SilenceExceeded(silenceTime) == silenceTime > silenceThreshold

\* the test of a span's end without the minimum duration
SpanActionableAnyDuration(speechDuration) == Len(speechBuffer) > 0

\* if (speechDuration >= this.minSpeechDuration && this.speechBuffer.length > 0)
SpanActionable(speechDuration) ==
    speechDuration >= minSpeechDuration /\ Len(speechBuffer) > 0

\* if (totalBufferedSize >= this.minAudioSizeForProcessing)
BufferReady(totalBufferedSize) == totalBufferedSize >= minAudioSizeForProcessing

\* if (this.pendingAudioChunks.length > 0 && elapsedTime > this.maxBufferWaitTime)
TimeoutReached(elapsedTime) ==
    Len(pendingAudioChunks) > 0 /\ elapsedTime > maxBufferWaitTime

\* the guards without the test of the blob's size
TranscribeProceedsAnySize(size) == whisperReady /\ openAIApiKey # ""

\* the guards that let transcribeWithOpenAI go on to build a request
TranscribeProceeds(size) ==
    whisperReady /\ openAIApiKey # "" /\ ~(size < TinyClipSize)

MaxTime == StartTime + scope.ticks * MonitorInterval

\* the start of a window of sound
WindowStart == (now - StartTime) % (EnvEvery * MonitorInterval) = 0

\* the instants at which the surroundings act: at the start of a window,
\* before the timers that are due at it
EnvInstant == WindowStart /\ ~tickStarted

\* the analyser's reading at this instant
CurrentReading ==
    IF level = "speech" \/ (level = "click" /\ WindowStart) THEN [avg |-> 20, peak |-> 100]
    ELSE IF level = "pop" /\ WindowStart THEN [avg |-> 2, peak |-> 60]
    ELSE IF level = "hum" THEN [avg |-> 9, peak |-> 40]
    ELSE IF level = "crack" THEN [avg |-> 2, peak |-> 51]
    ELSE IF level = "edge" THEN [avg |-> 8, peak |-> 50]
    ELSE [avg |-> 1, peak |-> 10]

\* a recorder's timeslice has elapsed at this instant
ChunkDue(rec) == now > rec.start /\ (now - rec.start) % Timeslice = 0

BufferTickDue == now % BufferInterval = 0 /\ "buf" \notin fired
QueueTickDue  == now % minTranscriptionInterval = 0 /\ "queue" \notin fired

----------------------------------------------------------------------------
(* transcribeWithOpenAI up to its first real suspension.  A clip of more   *)
(* than 50000 bytes waits for convertToWav (FileReader, decodeAudioData);  *)
(* a smaller one goes through convertToMp3, which resolves at once, so its *)
(* fetch is issued in the same turn of the event loop.                     *)

TranscribeWithOpenAI(clip) ==
    IF ~TranscribeProceeds(clip.size)
    THEN UNCHANGED << calls, submitted >>
    ELSE IF clip.size > WavThreshold
         THEN /\ calls' = calls \cup { [id |-> clip.id, path |-> clip.path, phase |-> "wav"] }
              /\ UNCHANGED submitted
         ELSE /\ calls' = calls \cup { [id |-> clip.id, path |-> clip.path, phase |-> "fetch"] }
              /\ submitted' = Append(submitted, [id |-> clip.id, at |-> now, format |-> "ogg"])

\* new Blob(chunks, { type: mimeType }), handed to transcribeWithOpenAI when send holds
NewBlob(chunks, path, send) ==
    LET clip == [id |-> nCalls + 1, chunks |-> chunks, size |-> TotalSize(chunks),
                 path |-> path, at |-> now, sent |-> send, peak |-> sourcePeak]
    IN  /\ nCalls' = nCalls + 1
        /\ clips' = Append(clips, clip)
        /\ IF send THEN TranscribeWithOpenAI(clip) ELSE UNCHANGED << calls, submitted >>

\* the boundary path without its "Clear the buffer immediately"
PendingKeptAfterBoundaryFlush(pend) == pend

\* this.pendingAudioChunks after the boundary path has built its Blob
PendingAfterBoundaryFlush(pend) == << >>

\* this.pendingAudioChunks after the timeout path has copied it
PendingAfterTimeoutFlush(pend) == << >>

\* the chunks the timeout path puts into its Blob
TimeoutBlobChunks(pend) == pend

\* a boundary path that puts the chunks just recorded before the ones that waited
BoundaryBlobChunksNewestFirst(pend) == speechBuffer \o pendingAudioChunks

\* the chunks the boundary path puts into its Blob
BoundaryBlobChunks(pend) == pend

processBufferedSpeechImmediate ==
    IF ~whisperReady \/ Len(speechBuffer) = 0
    THEN UNCHANGED << bufferVars, callVars >>
    ELSE LET pend == pendingAudioChunks \o speechBuffer
             totalBufferedSize == TotalSize(pend)
         IN  /\ speechBuffer' = << >>
             /\ lastBufferFlushTime' = now
             /\ IF BufferReady(totalBufferedSize)
                THEN /\ pendingAudioChunks' = PendingAfterBoundaryFlush(pend)
                     /\ NewBlob(BoundaryBlobChunks(pend), "boundary", TRUE)
                ELSE /\ pendingAudioChunks' = pend
                     /\ UNCHANGED callVars

----------------------------------------------------------------------------
(* The detector: one run of the monitoring timer callback *)

\* a detector that waits for the transcription calls in flight
DetectorRunsWhenIdle == analyser /\ calls = {}

\* if (!this.analyser) return: nothing else keeps the callback from its reading
DetectorRuns == analyser

checkSpeechActivity(r) ==
    /\ firedMon < monitorTimers
    /\ firedMon' = firedMon + 1
    /\ tickStarted' = TRUE
    /\ UNCHANGED << now, level, fired, commanded, firedRec, configVars, apartVars, sessionVars, nChunks, queueVars, filterVars, companionVars >>
    /\ IF ~DetectorRuns
       THEN UNCHANGED << detectVars, bufferVars, callVars >>
       ELSE IF speechDetected(r)
       THEN /\ isSpeaking' = TRUE
            /\ speechStartTime' = IF SpeechStarts(TRUE) THEN now ELSE speechStartTime
            /\ openSpans' = IF SpeechStarts(TRUE) THEN openSpans + 1 ELSE openSpans
            /\ lastEnd' = IF SpeechStarts(TRUE) THEN NoEnd ELSE lastEnd
            /\ lastSpeechTime' = now
            /\ UNCHANGED << bufferVars, callVars >>
       ELSE IF isSpeaking /\ SilenceExceeded(now - lastSpeechTime)
       THEN LET speechDuration == now - speechStartTime
                called == SpanActionable(speechDuration)
            IN  /\ IF called THEN processBufferedSpeechImmediate
                             ELSE UNCHANGED << bufferVars, callVars >>
                /\ isSpeaking' = FALSE
                /\ openSpans' = openSpans - 1
                /\ lastEnd' = [at |-> now, duration |-> speechDuration,
                               silence |-> now - lastSpeechTime, called |-> called]
                /\ UNCHANGED << speechStartTime, lastSpeechTime >>
       ELSE UNCHANGED << detectVars, bufferVars, callVars >>

----------------------------------------------------------------------------
(* The buffer processor: one run of the 100 ms timer callback *)

processBuffer ==
    /\ BufferTickDue
    /\ fired' = fired \cup {"buf"}
    /\ tickStarted' = TRUE
    /\ UNCHANGED << now, level, commanded, firedMon, firedRec, configVars, apartVars, sessionVars, nChunks,
                    detectVars, queueVars, filterVars, companionVars, speechBuffer >>
    /\ IF TimeoutReached(now - lastBufferFlushTime)
       THEN LET audioChunks == TimeoutBlobChunks(pendingAudioChunks)
            IN  /\ pendingAudioChunks' = PendingAfterTimeoutFlush(pendingAudioChunks)
                /\ NewBlob(audioChunks, "timeout", TotalSize(audioChunks) >= TimeoutMinSize)
                /\ lastBufferFlushTime' = now
       ELSE UNCHANGED << pendingAudioChunks, lastBufferFlushTime, callVars >>

----------------------------------------------------------------------------
(* The recorder *)

\* mediaRecorder.ondataavailable: if (event.data.size > 0) this.speechBuffer.push(event.data)
ondataavailable(sess, size) ==
    /\ nChunks' = nChunks + 1
    /\ speechBuffer' = IF size > 0
                       THEN Append(speechBuffer, [id |-> nChunks + 1, t |-> now,
                                                  sess |-> sess, size |-> size])
                       ELSE speechBuffer

\* a timeslice of a recording recorder is delivered
RecorderData ==
    \E rec \in recorders :
        /\ ChunkDue(rec)
        /\ rec.sess \notin firedRec
        /\ firedRec' = firedRec \cup {rec.sess}
        /\ tickStarted' = TRUE
        /\ ondataavailable(rec.sess, chunkBytes)
        /\ UNCHANGED << now, level, fired, commanded, firedMon, configVars, apartVars, sessionVars, detectVars,
                        pendingAudioChunks, lastBufferFlushTime, queueVars, filterVars, companionVars, callVars >>

\* the last dataavailable event of a recorder that was stopped: what was
\* recorded since the previous timeslice, possibly nothing
RecorderFinalData ==
    \E sess \in finalData : \E size \in {0, chunkBytes \div 2} :
        /\ finalData' = finalData \ {sess}
        /\ ondataavailable(sess, size)
        /\ UNCHANGED << timeVars, configVars, apartVars, isRecording, audioContext, analyser,
                        monitorTimers, monitoringInterval, recorders, mediaRecorder,
                        startPend, stopPend, sessions, permissionStatus, detectVars,
                        pendingAudioChunks, lastBufferFlushTime, queueVars, filterVars, companionVars, callVars >>

----------------------------------------------------------------------------
(* Session control *)

\* startCapture past its guard, up to its first await
startCaptureCall ==
    /\ isRecording' = TRUE
    /\ sessions' = sessions + 1
    /\ startPend' = startPend \cup { [sess |-> sessions + 1, source |-> "mic"] }
    /\ UNCHANGED << audioContext, analyser, monitorTimers, monitoringInterval, recorders,
                    mediaRecorder, finalData, stopPend, permissionStatus, firedMon >>

\* ipcRenderer.on('startAudioCapture'): startCapture up to its first await
startCapture ==
    /\ EnvInstant
    /\ ~commanded
    /\ commanded' = TRUE
    /\ ~isRecording
    /\ sessions < scope.sessions
    /\ startCaptureCall
    /\ UNCHANGED << now, level, fired, tickStarted, firedRec, configVars, apartVars,
                    nChunks, detectVars, bufferVars, queueVars, filterVars, companionVars, callVars >>

\* setupAudioProcessing: new AudioContext, analyser, setupMediaRecorder,
\* startContinuousMonitoring
setupAudioProcessing(p) ==
    /\ startPend' = startPend \ {p}
    /\ audioContext' = "running"
    /\ analyser' = TRUE
    /\ recorders' = recorders \cup { [sess |-> p.sess, start |-> now] }
    /\ mediaRecorder' = p.sess
    /\ monitorTimers' = monitorTimers + 1
    /\ monitoringInterval' = TRUE
    /\ firedMon' = firedMon + 1
    /\ UNCHANGED << now, level, fired, tickStarted, commanded, firedRec, configVars, apartVars, isRecording, finalData, stopPend,
                    sessions, permissionStatus, nChunks, detectVars, bufferVars, queueVars, filterVars, companionVars, callVars >>

\* getUserMedia (or, after a microphone failure, getDisplayMedia) resolves
CaptureGranted == EnvInstant /\ \E p \in startPend : setupAudioProcessing(p)

\* getUserMedia rejects: startCapture falls back to system audio
MicrophoneFailed ==
    \E p \in startPend :
        /\ EnvInstant
        /\ p.source = "mic"
        /\ startPend' = (startPend \ {p}) \cup { [p EXCEPT !.source = "system"] }
        /\ UNCHANGED << timeVars, configVars, apartVars, isRecording, audioContext, analyser,
                        monitorTimers, monitoringInterval, recorders, mediaRecorder,
                        finalData, stopPend, sessions, permissionStatus, nChunks, detectVars, bufferVars,
                        queueVars, filterVars, companionVars, callVars >>

\* getDisplayMedia rejects too: the outer catch resets isRecording and
\* writes the failure to the status line of the renderer's window
SystemAudioFailed ==
    \E p \in startPend :
        /\ EnvInstant
        /\ p.source = "system"
        /\ startPend' = startPend \ {p}
        /\ isRecording' = FALSE
        /\ permissionStatus' = "access denied"
        /\ UNCHANGED << timeVars, configVars, apartVars, audioContext, analyser,
                        monitorTimers, monitoringInterval, recorders, mediaRecorder,
                        finalData, stopPend, sessions, nChunks, detectVars, bufferVars,
                        queueVars, filterVars, companionVars, callVars >>

\* stopCapture past its guard, up to its await
stopCaptureCall ==
    /\ monitorTimers' = IF monitoringInterval THEN monitorTimers - 1 ELSE monitorTimers
    /\ monitoringInterval' = FALSE
    /\ firedMon' = IF monitoringInterval /\ firedMon > 0 THEN firedMon - 1 ELSE firedMon
    /\ LET live == { rec \in recorders : rec.sess = mediaRecorder }
       IN  /\ recorders' = recorders \ live
           /\ finalData' = finalData \cup { rec.sess : rec \in live }
    /\ CASE audioContext = "null" ->
                \* nothing to await
                /\ isRecording' = FALSE
                /\ UNCHANGED << audioContext, stopPend >>
         [] audioContext = "running" ->
                /\ audioContext' = "closing"
                /\ stopPend' = stopPend + 1
                /\ UNCHANGED isRecording
         [] OTHER ->
                \* close() of a context that is closing or closed rejects; the
                \* catch logs the error and isRecording keeps its value
                UNCHANGED << isRecording, audioContext, stopPend >>
    /\ UNCHANGED << analyser, mediaRecorder, startPend, sessions, permissionStatus >>

\* ipcRenderer.on('stopAudioCapture'): stopCapture up to its await
stopCapture ==
    /\ EnvInstant
    /\ ~commanded
    /\ commanded' = TRUE
    /\ scope.stop
    /\ isRecording
    /\ stopCaptureCall
    /\ UNCHANGED << now, level, fired, tickStarted, firedRec, configVars, apartVars, nChunks, detectVars, bufferVars, queueVars, filterVars, companionVars,
                    callVars >>

\* audioContext.close() resolves: the rest of stopCapture
stopCaptureClosed ==
    /\ EnvInstant
    /\ stopPend > 0
    /\ stopPend' = stopPend - 1
    /\ audioContext' = IF audioContext = "closing" THEN "closed" ELSE audioContext
    /\ isRecording' = FALSE
    /\ UNCHANGED << timeVars, configVars, apartVars, analyser, monitorTimers, monitoringInterval,
                    recorders, mediaRecorder, finalData, startPend, sessions,
                    permissionStatus, nChunks,
                    detectVars, bufferVars, queueVars, filterVars, companionVars, callVars >>

----------------------------------------------------------------------------
(* The transcription queue *)

\* the 300 ms timer of startTranscriptionQueue, with processTranscriptionQueue
QueueTick ==
    /\ QueueTickDue
    /\ fired' = fired \cup {"queue"}
    /\ tickStarted' = TRUE
    /\ UNCHANGED << now, level, commanded, firedMon, firedRec, configVars, apartVars, sessionVars, nChunks,
                    detectVars, bufferVars, filterVars, companionVars >>
    /\ IF Len(transcriptionQueue) > 0 /\ ~isProcessingQueue
       THEN LET audioBlob == Head(transcriptionQueue)
            IN  /\ transcriptionQueue' = Tail(transcriptionQueue)
                /\ TranscribeWithOpenAI(audioBlob)
                \* finally { isProcessingQueue = false } runs at once when the
                \* call returned without suspending
                /\ isProcessingQueue' = TranscribeProceeds(audioBlob.size)
                /\ UNCHANGED << nCalls, clips >>
       ELSE UNCHANGED << queueVars, callVars >>

----------------------------------------------------------------------------
(* Strings.  A transcript is a string; Len, SubSeq and \o apply to it.     *)

Max(a, b) == IF a >= b THEN a ELSE b
Min(a, b) == IF a <= b THEN a ELSE b

\* the character at position i (from 1)
CharAt(str, i) == SubSeq(str, i, i)

WhiteSpace == { " ", "\t" }
WhiteSpaceAndNewlines == WhiteSpace \cup { "\n", "\r" }

LowerCaseOf ==
    [A |-> "a", B |-> "b", C |-> "c", D |-> "d", E |-> "e", F |-> "f", G |-> "g",
     H |-> "h", I |-> "i", J |-> "j", K |-> "k", L |-> "l", M |-> "m", N |-> "n",
     O |-> "o", P |-> "p", Q |-> "q", R |-> "r", S |-> "s", T |-> "t", U |-> "u",
     V |-> "v", W |-> "w", X |-> "x", Y |-> "y", Z |-> "z"]

RECURSIVE toLowerCase(_)
\* String.prototype.toLowerCase, also Swift's lowercased()
toLowerCase(str) ==
    IF str = "" THEN ""
    ELSE LET ch == CharAt(str, 1)
         IN  (IF ch \in DOMAIN LowerCaseOf THEN LowerCaseOf[ch] ELSE ch)
                 \o toLowerCase(SubSeq(str, 2, Len(str)))

RECURSIVE TrimStart(_, _)
TrimStart(str, blanks) ==
    IF str # "" /\ CharAt(str, 1) \in blanks
    THEN TrimStart(SubSeq(str, 2, Len(str)), blanks) ELSE str

RECURSIVE TrimEnd(_, _)
TrimEnd(str, blanks) ==
    IF str # "" /\ CharAt(str, Len(str)) \in blanks
    THEN TrimEnd(SubSeq(str, 1, Len(str) - 1), blanks) ELSE str

\* String.prototype.trim, also trimmingCharacters(in: .whitespacesAndNewlines)
trim(str) == TrimEnd(TrimStart(str, WhiteSpaceAndNewlines), WhiteSpaceAndNewlines)

\* str.contains(sub)
contains(str, sub) ==
    \E i \in 1..(Len(str) - Len(sub) + 1) : SubSeq(str, i, i + Len(sub) - 1) = sub

\* str.hasPrefix(sub)
hasPrefix(str, sub) == Len(sub) <= Len(str) /\ SubSeq(str, 1, Len(sub)) = sub

RECURSIVE replacingBlanks(_)
\* str.replacingOccurrences(of: " ", with: "")
replacingBlanks(str) ==
    IF str = "" THEN ""
    ELSE (IF CharAt(str, 1) = " " THEN "" ELSE CharAt(str, 1))
             \o replacingBlanks(SubSeq(str, 2, Len(str)))

RECURSIVE components(_, _)
\* str.components(separatedBy: .whitespaces): the pieces between separators,
\* empty pieces included
components(str, word) ==
    IF str = "" THEN << word >>
    ELSE IF CharAt(str, 1) \in WhiteSpace
         THEN << word >> \o components(SubSeq(str, 2, Len(str)), "")
         ELSE components(SubSeq(str, 2, Len(str)), word \o CharAt(str, 1))

----------------------------------------------------------------------------
(* The duplicate filter of the renderer *)

RECURSIVE FillRow(_, _, _, _)
\* the inner loop of calculateSimilarity: row j of the matrix from row j - 1;
\* row[i + 1] is matrix[j][i]
FillRow(prev, str1, ch2, row) ==
    IF Len(row) = Len(str1) + 1 THEN row
    ELSE LET i == Len(row)
             cost == IF CharAt(str1, i) = ch2 THEN 0 ELSE 1
         IN  FillRow(prev, str1, ch2,
                     Append(row, Min(Min(row[i] + 1, prev[i + 1] + 1), prev[i] + cost)))

RECURSIVE FillMatrix(_, _, _, _)
\* the outer loop of calculateSimilarity, from row j on; the last row
FillMatrix(str1, str2, j, prev) ==
    IF j > Len(str2) THEN prev
    ELSE LET row == FillRow(prev, str1, CharAt(str2, j), << j >>)
         IN  \* row j is complete before row j + 1 is started
             IF Len(row) = Len(str1) + 1 THEN FillMatrix(str1, str2, j + 1, row) ELSE row

\* a similarity that divides by the length of the first string
calculateSimilarityByFirst(str1, str2) ==
    LET len1 == Len(str1)
        last == FillMatrix(str1, str2, 1, [i \in 1..(len1 + 1) |-> i - 1])
    IN  [num |-> len1 - last[len1 + 1], den |-> len1]

\* calculateSimilarity: 1 - matrix[len2][len1] / Math.max(len1, len2), kept
\* as the fraction num / den; den = 0 stands for NaN (0 / 0)
calculateSimilarity(str1, str2) ==
    LET len1 == Len(str1)
        len2 == Len(str2)
        last == FillMatrix(str1, str2, 1, [i \in 1..(len1 + 1) |-> i - 1])
    IN  [num |-> Max(len1, len2) - last[len1 + 1], den |-> Max(len1, len2)]

\* the threshold test with >= in place of >
SimilarityAtLeastThreshold(similarity) ==
    similarity.den > 0 /\ 10 * similarity.num >= 8 * similarity.den

\* similarity > 0.8 (1 - 1/5 evaluates to the double 0.8 exactly, and no
\* other quotient of lengths comes within rounding of it)
SimilarityAboveThreshold(similarity) ==
    similarity.den > 0 /\ 10 * similarity.num > 8 * similarity.den

\* isDuplicateTranscription
isDuplicateTranscription(text) ==
    LET cleanText == trim(toLowerCase(text))
    IN  \E k \in 1..Len(lastTranscriptions) :
            SimilarityAboveThreshold(calculateSimilarity(cleanText, lastTranscriptions[k]))

\* a history that drops its newest entry (pop) when it is over its length
HistoryTrimmedNewest(history) ==
    IF Len(history) > maxTranscriptionHistory
    THEN SubSeq(history, 1, Len(history) - 1) ELSE history

\* if (length > this.maxTranscriptionHistory) this.lastTranscriptions.shift()
HistoryTrimmed(history) ==
    IF Len(history) > maxTranscriptionHistory THEN Tail(history) ELSE history

\* a history that is never written
HistoryNotPushed(history, text) == history

\* this.lastTranscriptions.push(text.toLowerCase().trim())
HistoryPushed(history, text) == Append(history, trim(toLowerCase(text)))

\* addToTranscriptionHistory
addToTranscriptionHistory(text) ==
    LET pushed == HistoryPushed(lastTranscriptions, text)
    IN  /\ lastTranscriptions' = HistoryTrimmed(pushed)
        /\ lastEvicted' = IF Len(pushed) > maxTranscriptionHistory
                          THEN Head(pushed) ELSE lastEvicted

----------------------------------------------------------------------------
(* The noise heuristic of the UI, applied to a transcript that the         *)
(* renderer sent as transcriptionResult and the main process forwarded     *)

commonNoises ==
    { "uh", "um", "ah", "er", "hmm", "mhm", "yeah", "ok", "okay",
      "...", "huh", "what", "test", "testing", "hello", "hi",
      "can you hear me", "is this working", "microphone test",
      "thanks for watching", "thank you for watching", "bye", "goodbye",
      "peace", "see you later", "until next time", "that's all",
      "subscribe", "like and subscribe", "follow me", "check out",
      "visit", "website", "channel", "video", "tutorial" }

commercialPhrases ==
    { "beadaholique", "for all of your", "supply needs", "visit our website",
      "check out our", "available at", "shop now", "buy now", "order today",
      "special offer", "discount", "sale", "promotion", "deal" }

interviewKeywords ==
    { "experience", "project", "challenge", "team", "work", "role", "skill",
      "algorithm", "code", "programming", "software", "technical", "system",
      "problem", "solution", "design", "implement", "develop", "build",
      "java", "python", "swift", "javascript", "react", "node", "database",
      "api", "backend", "frontend", "framework", "library", "architecture",
      "performance", "optimization", "testing", "debugging", "deployment",
      "agile", "scrum", "git", "version", "control", "review", "collaboration",
      "leadership", "management", "responsibility", "achievement", "goal",
      "learn", "improve", "grow", "mentor", "teach", "communicate",
      "tell me about", "describe", "explain", "how would you", "what is",
      "why did you", "can you walk me through", "give me an example" }

\* the set of the entries of a sequence
Range(seq) == { seq[i] : i \in 1..Len(seq) }

\* words.count > 2 && uniqueWords.count < words.count / 2, in integers
IsRepetitive(words) ==
    Len(words) > 2 /\ Cardinality(Range(words)) < Len(words) \div 2

\* isCommonNoisePhrase
isCommonNoisePhrase(text) ==
    LET lowercased == toLowerCase(text)
    IN  \/ \E noise \in commonNoises :
              \/ lowercased = noise
              \/ replacingBlanks(lowercased) = replacingBlanks(noise)
        \/ \E phrase \in commercialPhrases : contains(lowercased, phrase)
        \/ Len(trim(text)) < ShortResponse
        \/ IsRepetitive(components(lowercased, ""))

\* isInterviewRelevant
isInterviewRelevant(text) ==
    LET lowercased == toLowerCase(text)
    IN  \/ \E keyword \in interviewKeywords : contains(lowercased, keyword)
        \/ contains(lowercased, "?")
        \/ \E start \in { "what", "how", "why", "tell me", "describe", "explain" } :
              hasPrefix(lowercased, start)

\* the guard of handleTranscription: TRUE when the transcript is taken up
handleTranscription(text) ==
    LET cleanedText == trim(text)
    IN  /\ cleanedText # ""
        /\ Len(cleanedText) >= MinCharacters
        /\ ~isCommonNoisePhrase(cleanedText)
        /\ isInterviewRelevant(cleanedText)

----------------------------------------------------------------------------
(* Continuations of transcribeWithOpenAI *)

\* convertToWav settles (a WAV blob, or the original blob and the OGG
\* fallback); the request is built and fetch() is called
ConversionDone ==
    \E c \in calls : \E fmt \in {"wav", "ogg"} :
        /\ EnvInstant
        /\ c.phase = "wav"
        /\ calls' = (calls \ {c}) \cup { [c EXCEPT !.phase = "fetch"] }
        /\ submitted' = Append(submitted, [id |-> c.id, at |-> now, format |-> fmt])
        /\ UNCHANGED << timeVars, configVars, apartVars, sessionVars, nChunks, detectVars,
                        bufferVars, queueVars, filterVars, companionVars, nCalls, clips >>

\* the log of returns keeps the two most recent ones
Logged(result) ==
    IF Len(results) < 2 THEN Append(results, result) ELSE << results[2], result >>

\* ipcRenderer.send('transcriptionResult', transcription): the log keeps the
\* most recent transcripts sent, as many as the history may hold
SentLogged(transcription) ==
    LET sent == Append(sentLog, transcription)
    IN  IF Len(sent) > maxTranscriptionHistory THEN Tail(sent) ELSE sent

\* a renderer that sends every transcript it gets, duplicates included
TranscriptSentAlways(hasText, accepted) == hasText

\* ipcRenderer.send('transcriptionResult') is reached past the duplicate
\* check and the push to the history only
TranscriptSent(hasText, accepted) == accepted

\* transcribeWithOpenAI from the settling of fetch() to its return, for call
\* id with the given number of other requests in flight: an error
\* status, a network error and a body without text are logged and nothing
\* else happens; a transcript goes through the duplicate filter and, when it
\* is new, into the history and on as transcriptionResult, where the UI
\* applies its noise heuristic.  (The coaching analysis started for an
\* accepted transcript runs in the background on state of its own.)
Returned(id, others, outcome, text) ==
    LET transcription == trim(text)
        hasText == outcome = "text" /\ Len(transcription) > 0
        duplicate == hasText /\ isDuplicateTranscription(transcription)
        accepted == hasText /\ ~duplicate
    IN  /\ IF accepted
           THEN addToTranscriptionHistory(transcription)
           ELSE UNCHANGED << lastTranscriptions, lastEvicted >>
        /\ sentLog' = IF TranscriptSent(hasText, accepted)
                      THEN SentLogged(transcription) ELSE sentLog
        /\ results' = Logged([id |-> id, others |-> others, outcome |-> outcome,
                              text |-> IF outcome = "text" THEN text ELSE "",
                              accepted |-> accepted,
                              reaccepted |-> accepted /\ trim(toLowerCase(transcription)) = lastEvicted,
                              analysed |-> accepted /\ handleTranscription(transcription)])

\* the in-flight calls once one of them is never taken out
CallsAfterReturnKept(c) == calls

\* the in-flight calls once call c has returned
CallsAfterReturn(c) == calls \ {c}

\* a failed request that is sent again
SubmittedAfterReturnRetried(c, outcome) ==
    IF outcome \in { "error status", "network error" }
    THEN Append(submitted, [id |-> c.id, at |-> now, format |-> "ogg"])
    ELSE submitted

\* the requests made once call c has returned: no request is repeated
SubmittedAfterReturn(c, outcome) == submitted

\* a failure that ends the capture session
RecordingAfterReturnEnded(outcome) ==
    IF outcome \in { "error status", "network error" } THEN FALSE ELSE isRecording

\* this.isRecording once the call has returned: no branch of
\* transcribeWithOpenAI after fetch() writes it, and the catch does not rethrow
RecordingAfterReturn(outcome) == isRecording

\* fetch() settles (a transcript, an empty result, an error status, a
\* network error): transcribeWithOpenAI runs to its end
ResponseArrived ==
    \E c \in calls : \E outcome \in scope.outcomes :
      \E text \in (IF outcome = "text" THEN texts ELSE { "" }) :
        /\ EnvInstant
        /\ c.phase = "fetch"
        /\ calls' = CallsAfterReturn(c)
        /\ submitted' = SubmittedAfterReturn(c, outcome)
        /\ isProcessingQueue' = IF c.path = "queue" THEN FALSE ELSE isProcessingQueue
        /\ Returned(c.id, Cardinality({ d \in calls \ {c} : d.phase = "fetch" }), outcome, text)
        /\ isRecording' = RecordingAfterReturn(outcome)
        /\ UNCHANGED << timeVars, configVars, apartVars, audioContext, analyser, monitorTimers,
                        monitoringInterval, recorders, mediaRecorder, finalData,
                        startPend, stopPend, sessions, permissionStatus, nChunks,
                        detectVars, bufferVars, transcriptionQueue, nCalls, clips,
                        companionVars >>

----------------------------------------------------------------------------
(* Time *)

\* every timer that is due at this instant has run
TimersDone ==
    /\ firedMon >= monitorTimers
    /\ ~BufferTickDue
    /\ ~QueueTickDue
    /\ \A rec \in recorders : ChunkDue(rec) => rec.sess \in firedRec
    /\ finalData = {}

\* the clock moves on by one monitoring period
ClockAdvances ==
    /\ TimersDone
    /\ now + MonitorInterval <= MaxTime
    /\ nCalls < MaxClips \/ ~WindowStart
    /\ now' = now + MonitorInterval
    /\ fired' = {}
    /\ tickStarted' = FALSE
    /\ commanded' = FALSE
    /\ firedMon' = 0
    /\ firedRec' = {}
    /\ UNCHANGED << configVars, apartVars, sessionVars, nChunks, detectVars, bufferVars,
                    queueVars, filterVars, companionVars, callVars >>

\* the clock moves on; at the start of a new window the sound may change
Advance ==
    /\ ClockAdvances
    /\ IF (now' - StartTime) % (EnvEvery * MonitorInterval) = 0
       THEN level' \in scope.levels
       ELSE level' = level

----------------------------------------------------------------------------

\* the state once the AudioCaptureManager constructor has returned
Constructed ==
    /\ now = StartTime
    /\ fired = {"buf", "queue"}
    /\ tickStarted = FALSE
    /\ commanded = FALSE
    /\ firedMon = 0
    /\ firedRec = {}
    /\ scope \in Scopes
    /\ level \in scope.levels
    /\ \E c \in Settings :
          /\ silenceThreshold = c.silence
          /\ minSpeechDuration = c.minSpeech
          /\ openAIApiKey = c.key
          /\ chunkBytes = c.bytes
          /\ sourcePeak = c.peak
    /\ whisperReady = (openAIApiKey # PlaceholderKey)
    /\ isRecording = FALSE
    /\ audioContext = "null"
    /\ analyser = FALSE
    /\ monitorTimers = 0
    /\ monitoringInterval = FALSE
    /\ recorders = {}
    /\ mediaRecorder = 0
    /\ finalData = {}
    /\ startPend = {}
    /\ stopPend = 0
    /\ sessions = 0
    /\ nChunks = 0
    /\ isSpeaking = FALSE
    /\ speechStartTime = 0
    /\ lastSpeechTime = 0
    /\ speechBuffer = << >>
    /\ pendingAudioChunks = << >>
    /\ lastBufferFlushTime = 0
    /\ transcriptionQueue = << >>
    /\ isProcessingQueue = FALSE
    /\ calls = {}
    /\ nCalls = 0
    /\ clips = << >>
    /\ submitted = << >>
    /\ openSpans = 0
    /\ lastEnd = NoEnd
    /\ lastTranscriptions = << >>
    /\ lastEvicted = ""
    /\ results = << >>
    /\ permissionStatus = (IF whisperReady THEN "whisper ready" ELSE "key needed")
    /\ isCapturing = FALSE
    /\ connectedClients = 0
    /\ isListening = FALSE
    /\ electronWebSocket = "closed"
    /\ toMain = << >>
    /\ toUI = << >>
    /\ ipc = << >>
    /\ notified = {}
    /\ clicks = 0
    /\ restarts = 0
    /\ sentLog = << >>
    /\ buffer = NoBuffer
    /\ arrayBuffer = << >>
    /\ previousWav = NoWav
    /\ strings = << "", "" >>
    /\ similarityValue = NoSimilarity
    /\ isProcessingAI = FALSE
    /\ currentAITask = 0
    /\ interviewMode = FALSE
    /\ aiTasks = {}
    /\ restartDue = FALSE
    /\ nTasks = 0

Init == Constructed /\ texts = SessionTexts

Monitor == checkSpeechActivity(CurrentReading)

Next ==
    \/ Advance
    \/ Monitor
    \/ processBuffer
    \/ QueueTick
    \/ RecorderData
    \/ RecorderFinalData
    \/ startCapture
    \/ CaptureGranted
    \/ MicrophoneFailed
    \/ SystemAudioFailed
    \/ stopCapture
    \/ stopCaptureClosed
    \/ ConversionDone
    \/ ResponseArrived

Spec == Init /\ [][Next]_vars

----------------------------------------------------------------------------
(* transcribeWithOpenAI on its own: applied to blobs of chosen sizes *)

\* transcribeWithOpenAI(audioBlob) for a blob of the given size
DirectCall ==
    \E size \in BlobSizes :
        /\ nCalls < MaxDirect
        /\ NewBlob(<< [id |-> nChunks + 1, t |-> now, sess |-> 0, size |-> size] >>,
                   "direct", TRUE)
        /\ nChunks' = nChunks + 1
        /\ UNCHANGED << timeVars, configVars, apartVars, sessionVars, detectVars, bufferVars,
                        queueVars, filterVars, companionVars >>

DispatchNext ==
    \/ DirectCall
    \/ ConversionDone
    \/ ResponseArrived

DispatchSpec == Init /\ [][DispatchNext]_vars

----------------------------------------------------------------------------
(* The filters on their own: applied to transcripts of a chosen vocabulary *)

FilterInit ==
    /\ Constructed
    /\ scope.stop
    /\ level = "silence"
    /\ silenceThreshold = 300 /\ minSpeechDuration = 200
    /\ openAIApiKey = "sk-key"
    /\ texts \in Vocabularies

\* a transcript comes back from the service
TranscriptReturned ==
    \E text \in texts :
        /\ Returned(0, 0, "text", text)
        /\ UNCHANGED << timeVars, configVars, apartVars, sessionVars, nChunks, detectVars,
                        bufferVars, queueVars, callVars, companionVars >>

FilterNext == TranscriptReturned

FilterSpec == FilterInit /\ [][FilterNext]_vars

----------------------------------------------------------------------------
(* The UI, the main process and the renderer together: the Coach button,   *)
(* the WebSocket between the UI and the main process, and the IPC channel  *)
(* from the main process to the renderer.  The clock stands still and the  *)
(* recorder delivers no data.                                              *)

CompanionInit ==
    /\ Constructed
    /\ scope.stop
    /\ level = "silence"
    /\ silenceThreshold = 300 /\ minSpeechDuration = 200
    /\ openAIApiKey = "sk-key"
    /\ texts = SessionTexts

\* sendToElectron: a message sent on a socket that is not open is lost
sendToElectron(type) ==
    toMain' = IF electronWebSocket = "open" THEN Append(toMain, type) ELSE toMain

\* microphoneClicked: stopInterviewCoaching when the UI shows listening,
\* startInterviewCoaching otherwise; each sets interviewMode and sends its
\* command (electronWebSocket is not nil once the UI has launched)
microphoneClicked ==
    /\ clicks < MaxClicks
    /\ clicks' = clicks + 1
    /\ interviewMode' = ~isListening
    /\ sendToElectron(IF isListening THEN "stopAudioCapture" ELSE "startAudioCapture")
    /\ UNCHANGED << timeVars, configVars, wavVars, similarityVars, sessionVars, nChunks,
                    detectVars, bufferVars, queueVars, filterVars, callVars, mainVars,
                    isListening, electronWebSocket, toUI, ipc, isProcessingAI,
                    currentAITask, aiTasks, restartDue, nTasks >>

\* ws.send(JSON.stringify({ type: ... })) to the client
wsSend(type) ==
    /\ toUI' = Append(toUI, type)
    /\ notified' = notified \cup { type }

\* the WebSocket opens: wsServer.on('connection') sends the status
connection ==
    /\ electronWebSocket = "closed"
    /\ electronWebSocket' = "open"
    /\ connectedClients' = connectedClients + 1
    /\ wsSend("status")
    /\ UNCHANGED << timeVars, configVars, apartVars, sessionVars, nChunks, detectVars, bufferVars,
                    queueVars, filterVars, callVars, isCapturing, restarts, isListening,
                    clicks, toMain, ipc >>

\* ws.on('message'): handleSwiftMessage with startAudioCapture / stopAudioCapture
handleSwiftMessage ==
    /\ toMain # << >>
    /\ toMain' = Tail(toMain)
    /\ CASE Head(toMain) = "startAudioCapture" /\ ~isCapturing ->
                /\ ipc' = Append(ipc, "startAudioCapture")
                /\ isCapturing' = TRUE
                /\ wsSend("audioCaptureStarted")
         [] Head(toMain) = "stopAudioCapture" /\ isCapturing ->
                /\ ipc' = Append(ipc, "stopAudioCapture")
                /\ isCapturing' = FALSE
                /\ wsSend("audioCaptureStopped")
         [] OTHER ->
                \* "Already capturing audio" / "Not currently capturing": return
                UNCHANGED << ipc, isCapturing, toUI, notified >>
    /\ UNCHANGED << timeVars, configVars, apartVars, sessionVars, nChunks, detectVars, bufferVars,
                    queueVars, filterVars, callVars, connectedClients, restarts, uiVars >>

\* the UI receives a message: handleElectronMessage
handleElectronMessage ==
    /\ toUI # << >>
    /\ toUI' = Tail(toUI)
    /\ isListening' = CASE Head(toUI) = "audioCaptureStarted" -> TRUE
                        [] Head(toUI) = "audioCaptureStopped" -> FALSE
                        [] OTHER -> isListening
    /\ UNCHANGED << timeVars, configVars, apartVars, sessionVars, nChunks, detectVars, bufferVars,
                    queueVars, filterVars, callVars, mainVars, electronWebSocket, clicks,
                    toMain, ipc >>

\* the renderer receives an IPC message: startCapture or stopCapture, each
\* with its guard on isRecording
ipcRendererOn ==
    /\ ipc # << >>
    /\ ipc' = Tail(ipc)
    /\ IF Head(ipc) = "startAudioCapture"
       THEN IF isRecording THEN UNCHANGED << sessionVars, firedMon >> ELSE startCaptureCall
       ELSE IF ~isRecording THEN UNCHANGED << sessionVars, firedMon >> ELSE stopCaptureCall
    /\ UNCHANGED << now, level, fired, tickStarted, commanded, firedRec, configVars, apartVars, nChunks,
                    detectVars, bufferVars, queueVars, filterVars, callVars, mainVars,
                    uiVars, toMain, toUI >>

\* the companion is restarted: the main process and the renderer start from
\* their constructors, the messages in flight are lost and the socket of the
\* UI closes; the UI keeps its state
CompanionRestarted ==
    /\ restarts < MaxRestarts
    /\ restarts' = restarts + 1
    /\ isCapturing' = FALSE
    /\ connectedClients' = 0
    /\ notified' = {}
    /\ toMain' = << >> /\ toUI' = << >> /\ ipc' = << >>
    /\ electronWebSocket' = "closed"
    /\ isRecording' = FALSE
    /\ audioContext' = "null"
    /\ analyser' = FALSE
    /\ monitorTimers' = 0
    /\ monitoringInterval' = FALSE
    /\ recorders' = {}
    /\ mediaRecorder' = 0
    /\ finalData' = {}
    /\ startPend' = {}
    /\ stopPend' = 0
    /\ firedMon' = 0
    /\ permissionStatus' = (IF whisperReady THEN "whisper ready" ELSE "key needed")
    /\ UNCHANGED << now, level, fired, tickStarted, commanded, firedRec, configVars, apartVars,
                    sessions, nChunks, detectVars, bufferVars, queueVars, filterVars,
                    callVars, isListening, clicks >>

\* getUserMedia or getDisplayMedia settles, one way or the other
SourceSettled == CaptureGranted \/ MicrophoneFailed \/ SystemAudioFailed

CompanionNext ==
    \/ microphoneClicked
    \/ connection
    \/ handleSwiftMessage
    \/ handleElectronMessage
    \/ ipcRendererOn
    \/ CaptureGranted
    \/ MicrophoneFailed
    \/ SystemAudioFailed
    \/ stopCaptureClosed
    \/ CompanionRestarted

CompanionSpec == CompanionInit /\ [][CompanionNext]_vars

\* every message is delivered, every promise settles and the UI reconnects;
\* clicks and restarts happen or not
CompanionFairSpec ==
    /\ CompanionSpec
    /\ WF_vars(connection)
    /\ WF_vars(handleSwiftMessage)
    /\ WF_vars(handleElectronMessage)
    /\ WF_vars(ipcRendererOn)
    /\ WF_vars(SourceSettled)
    /\ WF_vars(stopCaptureClosed)

----------------------------------------------------------------------------
(* The detector on its own: one capture session in which the sound may     *)
(* change at every monitoring period                                       *)

DetectorInit ==
    /\ Constructed
    /\ scope.stop
    /\ level = "silence"
    /\ silenceThreshold = 300 /\ minSpeechDuration = 200
    /\ openAIApiKey = "sk-key"
    /\ texts = SessionTexts

DetectorAdvance ==
    /\ ClockAdvances
    /\ now' <= StartTime + DetectorTicks * MonitorInterval
    /\ level' \in DetectorLevels

DetectorNext ==
    \/ DetectorAdvance
    \/ Monitor
    \/ processBuffer
    \/ QueueTick
    \/ RecorderData
    \/ startCapture
    \/ CaptureGranted

DetectorSpec == DetectorInit /\ [][DetectorNext]_vars

----------------------------------------------------------------------------
(* The WAV encoder on its own: audioBufferToWav applied to AudioBuffers of *)
(* chosen sizes and samples.  A sample is in 1/1000 of full scale; a byte  *)
(* is a number in 0..255.                                                  *)

\* what a channel may hold
Waveforms == { "silence", "full scale", "overdriven", "faint" }

\* the sample of a waveform at frame i: zero; full scale on either side;
\* beyond full scale on either side; just below zero and half of full scale
SampleAt(wave, i) ==
    CASE wave = "silence" -> 0
      [] wave = "full scale" -> IF i % 2 = 1 THEN 1000 ELSE -1000
      [] wave = "overdriven" -> IF i % 2 = 1 THEN 1001 ELSE -1001
      [] wave = "faint" -> IF i % 2 = 1 THEN -1 ELSE 500

SampleRates == { 44100, 48000 }

ChannelCounts == { 1, 2 }

\* the AudioBuffers of the given number of frames
AudioBuffers(frames) ==
    LET data == { [i \in 1..frames |-> SampleAt(wave, i)] : wave \in Waveforms }
    IN  UNION { { [length |-> frames, sampleRate |-> rate, numberOfChannels |-> count,
                   channels |-> channels] :
                    rate \in SampleRates, channels \in [1..count -> data] } :
                count \in ChannelCounts }

\* the bytes of value, least significant first (littleEndian = true)
LittleEndian(value, bytes) == [i \in 1..bytes |-> (value \div 256^(i - 1)) % 256]

\* view.setUint16(offset, value, true)
setUint16(value) == LittleEndian(value % 65536, 2)

\* view.setUint32(offset, value, true): the low and the high half of the
\* 32 bits that are kept
setUint32(value) == setUint16(value) \o setUint16(value \div 65536)

\* the integer part of a quotient: ToInt16 drops the fraction
Truncated(numerator, denominator) ==
    IF numerator >= 0 THEN numerator \div denominator
    ELSE -((-numerator) \div denominator)

\* view.setInt16(offset, value, true), for the value numerator / 1000
setInt16(numerator) == LittleEndian(Truncated(numerator, 1000) % 65536, 2)

\* string.charCodeAt(i), for the characters of the four chunk names
charCodeAt(char) ==
    CASE char = "R" -> 82  [] char = "I" -> 73  [] char = "F" -> 70
      [] char = "W" -> 87  [] char = "A" -> 65  [] char = "V" -> 86
      [] char = "E" -> 69  [] char = "f" -> 102 [] char = "m" -> 109
      [] char = "t" -> 116 [] char = " " -> 32  [] char = "d" -> 100
      [] char = "a" -> 97

\* writeString(offset, string)
writeString(string) == [i \in 1..Len(string) |-> charCodeAt(CharAt(string, i))]

bytesPerSample == 2

HeaderSize == 44

blockAlign(buf) == buf.numberOfChannels * bytesPerSample

byteRate(buf) == buf.sampleRate * blockAlign(buf)

\* an encoder that counts the frames up to the last one that is not silent
dataSizeOfAudible(buf) ==
    LET loud == { i \in 1..buf.length :
                    \E channel \in 1..buf.numberOfChannels : buf.channels[channel][i] # 0 }
        last == IF loud = {} THEN 0 ELSE CHOOSE i \in loud : \A k \in loud : k <= i
    IN  last * blockAlign(buf)

\* const dataSize = length * blockAlign
dataSize(buf) == buf.length * blockAlign(buf)

bufferSize(buf) == HeaderSize + dataSize(buf)

\* the 44 bytes written before the samples
WavHeader(buf) ==
    writeString("RIFF") \o setUint32(bufferSize(buf) - 8) \o writeString("WAVE")
    \o writeString("fmt ") \o setUint32(16) \o setUint16(1)
    \o setUint16(buf.numberOfChannels) \o setUint32(buf.sampleRate)
    \o setUint32(byteRate(buf)) \o setUint16(blockAlign(buf)) \o setUint16(16)
    \o writeString("data") \o setUint32(dataSize(buf))

\* a sample that is written as it comes
SampleUnclamped(value) == value

\* Math.max(-1, Math.min(1, channels[channel][i]))
SampleClamped(value) == Max(-1000, Min(1000, value))

\* const int16 = sample < 0 ? sample * 0x8000 : sample * 0x7FFF, in 1/1000
Int16Of(sample) == IF sample < 0 THEN sample * 32768 ELSE sample * 32767

RECURSIVE WavSamples(_, _, _)
\* the two loops over the frames and the channels, from frame i and the
\* given channel on
WavSamples(buf, i, channel) ==
    IF i > buf.length THEN << >>
    ELSE IF channel > buf.numberOfChannels THEN WavSamples(buf, i + 1, 1)
    ELSE setInt16(Int16Of(SampleClamped(buf.channels[channel][i])))
         \o WavSamples(buf, i, channel + 1)

\* the ArrayBuffer is bufferSize bytes long whatever is written to it
audioBufferToWav(buf) ==
    LET written == WavHeader(buf) \o WavSamples(buf, 1, 1)
    IN  [i \in 1..bufferSize(buf) |-> IF i <= Len(written) THEN written[i] ELSE 0]

\* convertToWav has decoded a clip: audioBufferToWav(audioBuffer)
WavConverted ==
    \E frames \in 0..MaxFrames : \E audioBuffer \in AudioBuffers(frames) :
        /\ buffer' = audioBuffer
        /\ arrayBuffer' = audioBufferToWav(audioBuffer)
        /\ previousWav' = [buffer |-> buffer,
                           header |-> SubSeq(arrayBuffer, 1, Min(HeaderSize, Len(arrayBuffer)))]
        /\ UNCHANGED << timeVars, configVars, sessionVars, nChunks, detectVars, bufferVars,
                        queueVars, filterVars, callVars, companionVars, similarityVars,
                        analysisVars >>

WavInit ==
    /\ Constructed
    /\ scope.stop
    /\ level = "silence"
    /\ silenceThreshold = 300 /\ minSpeechDuration = 200
    /\ openAIApiKey = "sk-key"
    /\ texts = SessionTexts

WavNext == WavConverted

WavSpec == WavInit /\ [][WavNext]_vars

----------------------------------------------------------------------------
(* calculateSimilarity on its own: applied to pairs of short strings *)

Alphabet == { "a", "b" }

RECURSIVE StringsOfLength(_)
StringsOfLength(n) ==
    IF n = 0 THEN { "" }
    ELSE { str \o char : str \in StringsOfLength(n - 1), char \in Alphabet }

\* the strings of up to MaxLen characters
ShortStrings == UNION { StringsOfLength(n) : n \in 0..MaxLen }

\* this.calculateSimilarity(cleanText, prev)
SimilarityComputed ==
    \E str1 \in ShortStrings : \E str2 \in ShortStrings :
        /\ strings' = << str1, str2 >>
        /\ similarityValue' = calculateSimilarity(str1, str2)
        /\ UNCHANGED << timeVars, configVars, sessionVars, nChunks, detectVars, bufferVars,
                        queueVars, filterVars, callVars, companionVars, wavVars,
                        analysisVars >>

SimilarityInit ==
    /\ Constructed
    /\ scope.stop
    /\ level = "silence"
    /\ silenceThreshold = 300 /\ minSpeechDuration = 200
    /\ openAIApiKey = "sk-key"
    /\ texts = SessionTexts

SimilarityNext == SimilarityComputed

SimilaritySpec == SimilarityInit /\ [][SimilarityNext]_vars

----------------------------------------------------------------------------
(* The buffers on their own: one capture session in which the sound may    *)
(* change at every monitoring period, with transcription ready or not      *)

DrainInit ==
    /\ Constructed
    /\ scope.stop
    /\ level = "silence"
    /\ silenceThreshold = 300 /\ minSpeechDuration = 200
    /\ texts = SessionTexts

DrainSpec == DrainInit /\ [][DetectorNext]_vars

\* setInterval and MediaRecorder.start(250) keep firing: every timer that is
\* due runs and the clock moves on; what is heard and whether capture is
\* started are up to the surroundings
DrainFairSpec ==
    /\ DrainSpec
    /\ WF_vars(DetectorAdvance)
    /\ WF_vars(Monitor)
    /\ WF_vars(processBuffer)
    /\ WF_vars(QueueTick)
    /\ WF_vars(RecorderData)

----------------------------------------------------------------------------
(* The analyses of the UI: screen analysis on request and coaching on a    *)
(* transcription, each a call to the chat endpoint, with the Coach and     *)
(* Start Over buttons.  The UI runs its handlers and the parts of its      *)
(* tasks between two awaits one at a time.  Of the renderer only its       *)
(* transcriptions reach the UI; they arrive whenever the socket is open.   *)

AnalysisTexts == { "we met at the market", "why we met at the market" }

AnalysisInit ==
    /\ Constructed
    /\ scope.stop
    /\ level = "silence"
    /\ silenceThreshold = 300 /\ minSpeechDuration = 200
    /\ openAIApiKey = "sk-key"
    /\ texts = AnalysisTexts

\* the set of tasks with one more, of the given kind and at the given point;
\* task is the number of the Task when it is the one stored in currentAITask,
\* 0 for a Task that no property refers to
TaskCreated(kind, phase, task) ==
    /\ nTasks' = nTasks + 1
    /\ aiTasks' = aiTasks \cup { [id |-> nTasks + 1, kind |-> kind, phase |-> phase,
                                  task |-> task, cancelled |-> FALSE] }

\* the analyses that have set isProcessingAI and await the chat endpoint
InProgress == { t \in aiTasks : t.phase = "request" }

\* Cmd+Enter or the Chat button: performManualAIAnalysis past its guards
\* stores a task that runs performScreenOCR in currentAITask
performManualAIAnalysis ==
    /\ nTasks < MaxAnalyses
    /\ ~isProcessingAI
    /\ TaskCreated("screen", "ocr", nTasks + 1)
    /\ currentAITask' = nTasks + 1
    /\ UNCHANGED << timeVars, configVars, wavVars, similarityVars, sessionVars, nChunks,
                    detectVars, bufferVars, queueVars, filterVars, callVars,
                    companionVars, isProcessingAI, interviewMode, restartDue >>

\* performScreenOCR in the stored task: when it has passed its guard, has its
\* image and Vision has its text, the completion handler starts a Task of
\* its own for processOCRResults, which calls analyzeWithGPT4o when enough
\* text was found and runs it to its first await; otherwise (guard, capture
\* thrown, too little text) nothing follows
processOCRResults ==
    \E t \in aiTasks : \E found \in { "text", "none" } :
        /\ t.phase = "ocr"
        /\ IF found = "text" /\ ~isProcessingAI
           THEN /\ isProcessingAI' = TRUE
                /\ aiTasks' = (aiTasks \ {t}) \cup
                                 { [t EXCEPT !.phase = "request", !.task = 0,
                                             !.cancelled = FALSE] }
           ELSE /\ aiTasks' = aiTasks \ {t}
                /\ UNCHANGED isProcessingAI
        /\ UNCHANGED << timeVars, configVars, wavVars, similarityVars, sessionVars,
                        nChunks, detectVars, bufferVars, queueVars, filterVars, callVars,
                        companionVars, currentAITask, interviewMode, restartDue, nTasks >>

\* a transcription message arrives: handleTranscription starts a task for
\* analyzeTranscriptionWithGPT4o when the transcript is taken up and
\* interviewMode && isListening; the task is not stored
transcriptionReceived ==
    \E text \in texts :
        /\ nTasks < MaxAnalyses
        /\ electronWebSocket = "open"
        /\ handleTranscription(text) /\ interviewMode /\ isListening
        /\ TaskCreated("transcription", "created", 0)
        /\ UNCHANGED << timeVars, configVars, wavVars, similarityVars, sessionVars,
                        nChunks, detectVars, bufferVars, queueVars, filterVars, callVars,
                        companionVars, isProcessingAI, currentAITask, interviewMode,
                        restartDue >>

\* analyzeTranscriptionWithGPT4o from its entry to its first await
analyzeTranscriptionWithGPT4o ==
    \E t \in aiTasks :
        /\ t.phase = "created"
        /\ IF isProcessingAI
           THEN /\ aiTasks' = aiTasks \ {t}
                /\ UNCHANGED isProcessingAI
           ELSE /\ isProcessingAI' = TRUE
                /\ aiTasks' = (aiTasks \ {t}) \cup { [t EXCEPT !.phase = "request"] }
        /\ UNCHANGED << timeVars, configVars, wavVars, similarityVars, sessionVars,
                        nChunks, detectVars, bufferVars, queueVars, filterVars, callVars,
                        companionVars, currentAITask, interviewMode, restartDue, nTasks >>

\* callOpenAIAPI returns or throws; the analysis ends and its defer runs
callOpenAIAPI ==
    \E t \in aiTasks :
        /\ t.phase = "request"
        /\ aiTasks' = aiTasks \ {t}
        /\ isProcessingAI' = FALSE
        /\ currentAITask' = 0
        /\ UNCHANGED << timeVars, configVars, wavVars, similarityVars, sessionVars,
                        nChunks, detectVars, bufferVars, queueVars, filterVars, callVars,
                        companionVars, interviewMode, restartDue, nTasks >>

\* the tasks once Start Over has called currentAITask.cancel(): the Task that
\* currentAITask refers to is marked, if it still runs
TasksAfterStartOver ==
    { IF currentAITask # 0 /\ t.task = currentAITask
      THEN [t EXCEPT !.cancelled = TRUE] ELSE t : t \in aiTasks }

\* Start Over
startOverClicked ==
    /\ clicks < MaxClicks
    /\ clicks' = clicks + 1
    /\ aiTasks' = TasksAfterStartOver
    /\ currentAITask' = 0
    /\ interviewMode' = FALSE
    /\ isProcessingAI' = FALSE
    /\ restartDue' = (restartDue \/ isListening)
    /\ UNCHANGED << timeVars, configVars, wavVars, similarityVars, sessionVars, nChunks,
                    detectVars, bufferVars, queueVars, filterVars, callVars, mainVars,
                    isListening, electronWebSocket, wireVars, nTasks >>

\* DispatchQueue.main.asyncAfter(0.1) { self.startInterviewCoaching() }
startInterviewCoaching ==
    /\ restartDue
    /\ restartDue' = FALSE
    /\ interviewMode' = TRUE
    /\ sendToElectron("startAudioCapture")
    /\ UNCHANGED << timeVars, configVars, wavVars, similarityVars, sessionVars, nChunks,
                    detectVars, bufferVars, queueVars, filterVars, callVars, mainVars,
                    uiVars, toUI, ipc, isProcessingAI, currentAITask, aiTasks, nTasks >>

AnalysisNext ==
    \/ microphoneClicked
    \/ connection
    \/ handleSwiftMessage
    \/ handleElectronMessage
    \/ performManualAIAnalysis
    \/ processOCRResults
    \/ transcriptionReceived
    \/ analyzeTranscriptionWithGPT4o
    \/ callOpenAIAPI
    \/ startOverClicked
    \/ startInterviewCoaching

AnalysisSpec == AnalysisInit /\ [][AnalysisNext]_vars

----------------------------------------------------------------------------
(* Properties *)

Buffered == speechBuffer \o pendingAudioChunks

ChunkIds(chunks) == { chunks[i].id : i \in 1..Len(chunks) }

\* a step that is one run of checkSpeechActivity
MonitorStep == firedMon' = firedMon + 1 /\ monitorTimers' = monitorTimers

\* a span has been closed and none was opened since
SpanClosed == lastEnd.at > 0

\* every capture session has been stopped and nothing of it is left running
SessionOver ==
    /\ sessions > 0
    /\ ~isRecording
    /\ startPend = {}
    /\ stopPend = 0
    /\ monitorTimers = 0

C2_OneChunkPerClip ==
    \A i \in 1..Len(clips) : clips[i].sent => Len(clips[i].chunks) = 1

\* C3: no recorded chunk is part of two different clips, whichever of the
\* two flush paths built them.
C3_NoChunkInTwoClips ==
    \A i, j \in 1..Len(clips) :
        i # j => ChunkIds(clips[i].chunks) \cap ChunkIds(clips[j].chunks) = {}

\* C3: the timeout path and the boundary path have each built a clip
C3_Witness ==
    \E i, j \in 1..Len(clips) :
        /\ clips[i].path = "timeout" /\ clips[j].path = "boundary"
        /\ Len(clips[i].chunks) > 0 /\ Len(clips[j].chunks) > 0

\* C4: the speech-end of a span whose measured duration is below
\* minSpeechDuration leaves the buffers as they are and builds no clip.
C4_ShortSpanNotFlushed ==
    [][ (MonitorStep /\ isSpeaking /\ ~isSpeaking'
            /\ now - speechStartTime < minSpeechDuration)
        => UNCHANGED << speechBuffer, pendingAudioChunks, lastBufferFlushTime, callVars >> ]_vars

\* C4: a span below the minimum was closed while audio was buffered and
\* transcription was ready
C4_Witness ==
    /\ SpanClosed
    /\ lastEnd.duration < minSpeechDuration
    /\ whisperReady
    /\ Len(speechBuffer) > 0
    /\ lastEnd.at = now

\* C5: Scenario 1: with thresholds 300 ms and 200 ms, a span of one loud
\* reading (energy 0.02 for 50 ms) followed by silence is reported with
\* about 50 ms and is discarded without a flush.
C5_Scenario1 ==
    (/\ silenceThreshold = 300 /\ minSpeechDuration = 200
     /\ SpanClosed
     /\ level = "click"
     /\ lastSpeechTime = speechStartTime)
    => (lastEnd.duration <= 100 /\ ~lastEnd.called)

\* C6: Scenario 2: with the same thresholds, a span of 1000 ms of loud
\* readings is reported with about 1000 ms and its audio is flushed.
C6_Scenario2 ==
    (/\ silenceThreshold = 300 /\ minSpeechDuration = 200
     /\ SpanClosed
     /\ lastSpeechTime - speechStartTime = 950
     /\ lastEnd.silence <= 400)
    => (lastEnd.duration <= 1100 /\ lastEnd.called)

\* C7 (as stated): a quiet reading closes the open span exactly when the
\* silence exceeds 500 ms once the span's speech is longer than 2000 ms, and
\* the configured threshold otherwise.
C7_AdaptiveThreshold ==
    [][ (MonitorStep /\ analyser /\ isSpeaking /\ ~speechDetected(CurrentReading))
        => (isSpeaking' <=> ~SilenceExceededAdaptive(now - lastSpeechTime)) ]_vars

\* C7 (amended): a quiet reading closes the open span exactly when the
\* silence exceeds the configured silenceThreshold, however long the span is.
C7_ConfiguredThreshold ==
    [][ (MonitorStep /\ analyser /\ isSpeaking /\ ~speechDetected(CurrentReading))
        => (isSpeaking' <=> ~(now - lastSpeechTime > silenceThreshold)) ]_vars

\* C7: a span with more than 2000 ms of speech was closed
C7_Witness == SpanClosed /\ lastSpeechTime - speechStartTime > 2000

\* no speech-start or speech-end has happened since the chunk arrived
NoBoundarySince(c) ==
    IF isSpeaking THEN speechStartTime <= c.t ELSE SpanClosed /\ lastEnd.at <= c.t

\* C8: audio that has been buffered without a boundary event is flushed by
\* the buffer processor after maxBufferWaitTime plus one of its periods.
C8_TimeoutFlush ==
    \A i \in 1..Len(Buffered) :
        NoBoundarySince(Buffered[i])
            => now - Buffered[i].t <= maxBufferWaitTime + BufferInterval

\* C9: at most one transcription request is in flight.
C9_OneRequestInFlight ==
    Cardinality({ c \in calls : c.phase = "fetch" }) <= 1

\* C10: consecutive submissions are at least minTranscriptionInterval apart.
C10_MinimumInterval ==
    \A i \in 1..(Len(submitted) - 1) :
        submitted[i + 1].at - submitted[i].at >= minTranscriptionInterval

Last(seq) == seq[Len(seq)]

\* a request that ended in an error status or a network error
Failed(result) == result.outcome \in { "error status", "network error" }

\* the clip a request was made for
ClipOf(request) == clips[request.id]

\* C11: a failed transcription of clip A drops A and nothing else: A is no
\* longer in flight and is not accepted, the busy flag of the queue is only
\* set while a call of the queue is in flight, and every other clip that
\* passed the guards of the transcription call has had its request made or is
\* being converted for it.
C11_FailureIsolated ==
    /\ \A i \in 1..Len(results) :
          Failed(results[i]) =>
              /\ ~results[i].accepted
              /\ \A c \in calls : c.id # results[i].id
    /\ isProcessingQueue => \E c \in calls : c.path = "queue"
    /\ \A i \in 1..Len(clips) :
          (clips[i].sent /\ TranscribeProceeds(clips[i].size)) =>
              \/ \E k \in 1..Len(submitted) : submitted[k].id = clips[i].id
              \/ \E c \in calls : c.id = clips[i].id /\ c.phase = "wav"

\* C11: the request for one clip failed and the transcript of another clip
\* was accepted after it
C11_Witness ==
    /\ Len(results) = 2
    /\ Failed(results[1])
    /\ results[2].accepted
    /\ results[2].id # results[1].id

\* C12: no clip is submitted to the transcription service twice, however
\* its request ends.
C12_NoClipSubmittedTwice ==
    \A i, j \in 1..Len(submitted) : i # j => submitted[i].id # submitted[j].id

\* C12: one request failed, another returned no text, and two requests were made
C12_Witness ==
    /\ Len(results) = 2
    /\ Failed(results[1])
    /\ results[2].outcome = "no text"
    /\ Len(submitted) = 2

\* C13: every request to the transcription service carries a clip of at
\* least 1000 bytes.
C13_NoTinyClipSubmitted ==
    \A i \in 1..Len(submitted) : ClipOf(submitted[i]).size >= TinyClipSize

\* C13: with transcription ready, a clip of fewer than 1000 bytes was handed
\* to the transcription call, and a request was made for another clip only
C13_Witness ==
    /\ whisperReady /\ openAIApiKey # ""
    /\ \E i \in 1..Len(clips) :
          /\ clips[i].sent
          /\ clips[i].size > 0 /\ clips[i].size < TinyClipSize
    /\ Len(submitted) = 1

\* C14: Scenario 4: no request is made for a clip whose samples stay below
\* the silence floor of 0.01 (100 in 1/10000).
C14_SilentClipNotSubmitted ==
    \A i \in 1..Len(submitted) : ClipOf(submitted[i]).peak >= 100

\* C15: when the same transcript is returned twice in direct succession, the
\* second is rejected and the transcript is in the history once.
C15_SecondIsRejected ==
    (/\ Len(results) = 2
     /\ results[1].outcome = "text" /\ results[2].outcome = "text"
     /\ results[1].text = results[2].text)
    => /\ ~results[2].accepted
       /\ Cardinality({ k \in 1..Len(lastTranscriptions) :
                          lastTranscriptions[k] = trim(toLowerCase(results[2].text)) }) <= 1
       /\ results[1].accepted =>
             trim(toLowerCase(results[1].text)) \in Range(lastTranscriptions)

\* C15: the same transcript came back for two requests that were in flight
\* together; the first was accepted and the second rejected
C15_Witness ==
    /\ Len(results) = 2
    /\ results[1].outcome = "text" /\ results[2].outcome = "text"
    /\ results[1].text = results[2].text
    /\ results[1].others > 0
    /\ results[1].accepted /\ ~results[2].accepted

\* C16: the history holds at most maxTranscriptionHistory entries; an accepted
\* transcript is appended at its end and, when the history was full, the
\* oldest entry leaves and the others keep their order; a transcript equal to
\* the entry that left last, and no longer in the history, is accepted.
C16_HistoryBound ==
    [][ LET new == Last(results')
            before == lastTranscriptions
            after == lastTranscriptions'
        IN  /\ Len(after) <= maxTranscriptionHistory
            /\ new.accepted =>
                  /\ Last(after) = trim(toLowerCase(new.text))
                  /\ IF Len(before) = maxTranscriptionHistory
                     THEN /\ Len(after) = maxTranscriptionHistory
                          /\ \A i \in 1..(Len(after) - 1) : after[i] = before[i + 1]
                     ELSE /\ Len(after) = Len(before) + 1
                          /\ \A i \in 1..Len(before) : after[i] = before[i]
            /\ (/\ lastEvicted # ""
                /\ lastEvicted \notin Range(before)
                /\ trim(toLowerCase(new.text)) = lastEvicted)
               => new.accepted ]_vars

\* C16: with a full history, a transcript that had left the history as its
\* oldest entry was accepted again
C16_Witness ==
    /\ Len(results) > 0
    /\ Last(results).reaccepted
    /\ Len(lastTranscriptions) = maxTranscriptionHistory

RECURSIVE EditDistance(_, _)
\* the Levenshtein distance by its defining recurrence
EditDistance(a, b) ==
    IF a = "" THEN Len(b)
    ELSE IF b = "" THEN Len(a)
    ELSE LET ra == SubSeq(a, 2, Len(a))
             rb == SubSeq(b, 2, Len(b))
         IN  IF CharAt(a, 1) = CharAt(b, 1) THEN EditDistance(ra, rb)
             ELSE 1 + Min(Min(EditDistance(ra, b), EditDistance(a, rb)), EditDistance(ra, rb))

\* C17: a transcript is rejected exactly when, lower-cased and trimmed, its
\* similarity 1 - distance / max(len1, len2) to some history entry is above
\* 0.8, that is when 5 * distance < max(len1, len2); a similarity of exactly
\* 0.8 is accepted; "lets talk about arrays" after "let's talk about arrays"
\* is rejected.
C17_DuplicateRule ==
    [][ LET new == Last(results')
            clean == trim(toLowerCase(new.text))
            before == lastTranscriptions
        IN  /\ "abcde" \in texts =>
                  (new.accepted <=>
                      \A k \in 1..Len(before) :
                          ~(5 * EditDistance(clean, before[k]) < Max(Len(clean), Len(before[k]))))
            /\ (new.text = "lets talk about arrays"
                    /\ "let's talk about arrays" \in Range(before))
               => ~new.accepted ]_vars

\* C17: a transcript at similarity exactly 0.8 to the history entry "abcde"
\* was accepted
C17_Witness ==
    /\ Len(results) = 2
    /\ results[1].text = "abcde" /\ results[1].accepted
    /\ results[2].text = "abcdx" /\ results[2].accepted

\* C18: whatever enters the duplicate history and is sent on has passed the
\* noise heuristic.
C18_OnlyMeaningfulInHistory ==
    \A i \in 1..Len(results) : results[i].accepted => results[i].analysed

\* fewer than half of the words are unique
FewerThanHalfUnique(words) == 2 * Cardinality(Range(words)) < Len(words)

\* C19: every transcript in which fewer than half of the words are unique is
\* blocked by the noise filter.
C19_RepetitionRule ==
    \A i \in 1..Len(results) :
        (/\ results[i].accepted
         /\ FewerThanHalfUnique(components(toLowerCase(trim(results[i].text)), "")))
        => isCommonNoisePhrase(trim(results[i].text))

\* a step that is the stopCapture command
StopStep == ~commanded /\ commanded' /\ isRecording

\* C20: stopCapture with audio in speechBuffer or pendingAudioChunks flushes
\* it: the buffers are emptied and a clip is built from them.
C20_StopFlushes ==
    [][ (StopStep /\ Len(Buffered) > 0)
        => (speechBuffer' = << >> /\ pendingAudioChunks' = << >> /\ nCalls' > nCalls) ]_vars

\* a step in which a recorder delivers a timeslice
ChunkStep == nChunks' = nChunks + 1 /\ firedRec' # firedRec

\* the request of a call in flight
RequestOf(c) == CHOOSE k \in 1..Len(submitted) : submitted[k].id = c.id

\* C21: while a transcription call is in flight the detector and the
\* recorder go on: a loud reading in the idle state opens a span at that
\* instant, and a timeslice that arrives is appended to speechBuffer.
C21_CaptureNotBlocked ==
    [][ /\ (MonitorStep /\ analyser /\ calls # {} /\ ~isSpeaking
               /\ speechDetected(CurrentReading))
           => (isSpeaking' /\ speechStartTime' = now /\ openSpans' = openSpans + 1)
        /\ (ChunkStep /\ calls # {})
           => (Len(speechBuffer') = Len(speechBuffer) + 1
               /\ Last(speechBuffer').t = now) ]_vars

\* C21: a span opened after the request of a call that is still in flight,
\* and a timeslice of that span is in speechBuffer
C21_Witness ==
    \E c \in calls :
        /\ c.phase = "fetch"
        /\ isSpeaking
        /\ speechStartTime > submitted[RequestOf(c)].at
        /\ \E i \in 1..Len(speechBuffer) : speechBuffer[i].t > speechStartTime

\* no message and no promise is under way
Quiet ==
    /\ toMain = << >> /\ toUI = << >> /\ ipc = << >>
    /\ startPend = {} /\ stopPend = 0

\* C22: when the one start that was requested found no audio source, the
\* client has been sent an audio-capture error and no audioCaptureStarted,
\* and neither the main process nor the UI shows a capture.
C22_StartFailureSurfaced ==
    (/\ clicks = 1 /\ restarts = 0
     /\ Quiet
     /\ permissionStatus = "access denied")
    => /\ "audioCaptureError" \in notified
       /\ "audioCaptureStarted" \notin notified
       /\ ~isCapturing
       /\ ~isListening

\* a step in which a transcription call returns
ReturnStep == Cardinality(calls') < Cardinality(calls)

\* C23: a transcription that fails, comes back empty or is rejected as a
\* duplicate leaves the session, the detector and the monitoring timer as
\* they are.
C23_ErrorsStayInDispatcher ==
    [][ (ReturnStep /\ ~Last(results').accepted)
        => UNCHANGED << isRecording, isSpeaking, speechStartTime, lastSpeechTime,
                        monitorTimers, monitoringInterval, recorders, mediaRecorder,
                        audioContext, analyser >> ]_vars

\* C23: one request failed and another came back empty while the session
\* went on: capture is running, its monitoring timer is live and a span is
\* open
C23_Witness ==
    /\ Len(results) = 2
    /\ Failed(results[1])
    /\ results[2].outcome = "no text"
    /\ isRecording /\ monitorTimers = 1 /\ monitoringInterval
    /\ isSpeaking /\ lastSpeechTime = now

\* C24: at most one speech-monitoring timer and at most one recorder are
\* active, whatever the order of the start and stop requests.
C24_OnePipeline ==
    /\ monitorTimers <= 1
    /\ Cardinality(recorders) <= 1

\* C25: the requests are made in the order in which their clips were
\* flushed.
C25_SubmittedInFlushOrder ==
    \A i, j \in 1..Len(submitted) :
        i < j => ClipOf(submitted[i]).at <= ClipOf(submitted[j]).at
                    /\ submitted[i].id < submitted[j].id

\* the main process is about to receive the request of a click that was made
\* while the UI showed listening (not listening)
StopAsked == isListening /\ toMain # << >> /\ Head(toMain) = "stopAudioCapture"
StartAsked == ~isListening /\ toMain # << >> /\ Head(toMain) = "startAudioCapture"

\* the companion is not restarted any more
RestartsOver == restarts = MaxRestarts

\* C26: once the restarts are over, a click on the Coach button while the UI
\* shows listening leads to the capture being stopped and the UI showing
\* not-listening; a click while it shows not-listening leads to the capture
\* being started, unless no audio source is available.
C26_CoachButtonToggles ==
    /\ (RestartsOver /\ StopAsked) ~> ~isListening
    /\ (RestartsOver /\ StopAsked) ~> ~isRecording
    /\ (RestartsOver /\ StartAsked) ~> (isRecording \/ permissionStatus = "access denied")

\* C27: the detector goes from idle to speaking on exactly those runs of
\* checkSpeechActivity whose reading has an average above speechThreshold or
\* a peak above 0.05, and records the instant as speechStartTime; a reading
\* above the thresholds while speaking refreshes lastSpeechTime and changes
\* nothing else.
C27_OnsetRule ==
    [][ LET r == CurrentReading
            above == r.avg > speechThreshold \/ r.peak > PeakThreshold
        IN  /\ (~isSpeaking /\ isSpeaking')
                  <=> (MonitorStep /\ analyser /\ ~isSpeaking /\ above)
            /\ (~isSpeaking /\ isSpeaking')
                  => (speechStartTime' = now /\ lastSpeechTime' = now
                         /\ openSpans' = openSpans + 1)
            /\ (MonitorStep /\ analyser /\ isSpeaking /\ above)
                  => (/\ isSpeaking' /\ lastSpeechTime' = now
                      /\ UNCHANGED << speechStartTime, openSpans, lastEnd, bufferVars,
                                      callVars >>) ]_vars

\* C27: a span that was opened two monitoring periods ago is refreshed by a
\* reading that only shows in the average volume
C27_Witness ==
    /\ isSpeaking
    /\ level = "hum" /\ lastSpeechTime = now
    /\ speechStartTime = now - 2 * MonitorInterval
    /\ CurrentReading.peak <= PeakThreshold
    /\ openSpans = 1

\* a span is open, or one was closed less than one timeslice ago, so that the
\* timeslice delivered now holds audio of a span
SpanDuringTimeslice == isSpeaking \/ (SpanClosed /\ now - lastEnd.at < Timeslice)

\* C28: a timeslice of the recorder is appended to speechBuffer only when it
\* holds audio of a speech span.
C28_BufferedOnlyInSpan ==
    [][ (ChunkStep /\ Len(speechBuffer') > Len(speechBuffer)) => SpanDuringTimeslice ]_vars

\* the chunks are in the order of their arrival and none that arrived
\* between two of them is missing
Contiguous(chunks) ==
    \A i \in 1..(Len(chunks) - 1) : chunks[i + 1].id = chunks[i].id + 1

\* C29: the chunks of every clip handed to the transcription call are in
\* capture order and form a contiguous run of the chunks recorded.
C29_NoReorderingNoGaps ==
    \A i \in 1..Len(clips) : clips[i].sent => Contiguous(clips[i].chunks)

\* C29: a clip of more than two chunks built at a speech-end and a clip of
\* several chunks built from pendingAudioChunks by the timeout were both
\* handed to the transcription call
C29_Witness ==
    \E i, j \in 1..Len(clips) :
        /\ clips[i].sent /\ clips[j].sent
        /\ clips[i].path = "boundary" /\ Len(clips[i].chunks) > 2
        /\ clips[j].path = "timeout" /\ Len(clips[j].chunks) > 1

\* the detector has just closed a span that is long enough to be acted on
ActionableSpeechEnd ==
    /\ isSpeaking /\ ~isSpeaking'
    /\ lastEnd' # NoEnd /\ lastEnd'.called
    /\ whisperReady

\* C30: on an actionable speech-end, buffered audio of at least the minimum
\* byte floor is flushed to one clip and the buffer becomes empty; buffered
\* audio below the floor is discarded, not kept for a later clip.
C30_BoundaryFlush ==
    [][ ActionableSpeechEnd =>
          LET buffered == pendingAudioChunks \o speechBuffer
          IN  /\ speechBuffer' = << >> /\ pendingAudioChunks' = << >>
              /\ IF TotalSize(buffered) >= minAudioSizeForProcessing
                 THEN /\ Len(clips') = Len(clips) + 1
                      /\ clips'[Len(clips')].chunks = buffered
                      /\ clips'[Len(clips')].sent
                 ELSE clips' = clips ]_vars

\* the little-endian numbers at an offset (from 0) of a sequence of bytes
getUint16(bytes, offset) == bytes[offset + 1] + 256 * bytes[offset + 2]
getUint32(bytes, offset) == getUint16(bytes, offset) + 65536 * getUint16(bytes, offset + 2)
getInt16(bytes, offset) ==
    IF getUint16(bytes, offset) >= 32768 THEN getUint16(bytes, offset) - 65536
    ELSE getUint16(bytes, offset)

\* the 44 bytes audioBufferToWav returned first
Header == SubSeq(arrayBuffer, 1, HeaderSize)

\* audioBufferToWav has run twice, on the same sample rate and channel count
TwoRuns ==
    /\ previousWav # NoWav
    /\ previousWav.buffer.sampleRate = buffer.sampleRate
    /\ previousWav.buffer.numberOfChannels = buffer.numberOfChannels

\* C31 as stated: two runs of audioBufferToWav on the same sample rate and
\* channel count return the same 44-byte header, whatever the samples and
\* the length of the two inputs.
C31_HeaderDeterminism == TwoRuns => Header = previousWav.header

\* the bytes 4..7 (RIFF size) and 40..43 (data size) of the header
SizeFields == (5..8) \cup (41..44)

\* C31: two runs of audioBufferToWav on the same sample rate, channel count
\* and length return the same 44-byte header whatever the samples; when the
\* lengths differ the headers differ, and only in the RIFF size and data size.
C31_HeaderOfSizes ==
    TwoRuns =>
        /\ \A i \in (1..HeaderSize) \ SizeFields : Header[i] = previousWav.header[i]
        /\ previousWav.buffer.length = buffer.length <=> Header = previousWav.header

\* C31: two runs on inputs of the same sizes and different samples
C31_Witness ==
    /\ TwoRuns
    /\ previousWav.buffer.length = buffer.length
    /\ buffer.length > 1
    /\ previousWav.buffer.channels # buffer.channels

\* the 16-bit value written for frame i of the given channel
WrittenSample(i, channel) ==
    getInt16(arrayBuffer, HeaderSize + 2 * ((i - 1) * buffer.numberOfChannels + (channel - 1)))

\* C32: for an input of L frames, C channels and sample rate R,
\* audioBufferToWav returns 44 + 2*L*C bytes with RIFF size 36 + 2*L*C, data
\* size 2*L*C, block align 2*C and byte rate 2*R*C; a sample at or beyond
\* full scale is written as 32767 or -32768, and one within it as a value of
\* its sign that is no larger in proportion.
C32_WavLayout ==
    buffer # NoBuffer =>
        LET L == buffer.length
            C == buffer.numberOfChannels
            R == buffer.sampleRate
        IN  /\ Len(arrayBuffer) = 44 + 2 * L * C
            /\ getUint32(arrayBuffer, 4) = 36 + 2 * L * C
            /\ getUint32(arrayBuffer, 40) = 2 * L * C
            /\ getUint16(arrayBuffer, 32) = 2 * C
            /\ getUint32(arrayBuffer, 28) = 2 * R * C
            /\ \A i \in 1..L : \A channel \in 1..C :
                  LET sample == buffer.channels[channel][i]
                      written == WrittenSample(i, channel)
                  IN  /\ written \in -32768..32767
                      /\ sample >= 1000 => written = 32767
                      /\ sample <= -1000 => written = -32768
                      /\ sample \in -999..999 =>
                            /\ written * sample >= 0
                            /\ 1000 * written <= 32767 * sample \/ sample < 0
                            /\ 1000 * written >= 32768 * sample \/ sample >= 0

\* C32: a stereo buffer of two frames with samples beyond full scale on
\* either side in one channel and samples within it in the other was encoded
C32_Witness ==
    /\ buffer.length = 2 /\ buffer.numberOfChannels = 2
    /\ buffer.channels[1] = << 1001, -1001 >>
    /\ buffer.channels[2] = << -1, 500 >>
    /\ Len(arrayBuffer) = 52

\* calculateSimilarity has run on two strings that are not both empty
SimilarityOfStrings == similarityValue # NoSimilarity /\ strings # << "", "" >>

\* C33: for strings a, b that are not both empty calculateSimilarity(a, b) is
\* 1 - lev(a, b) / max(|a|, |b|) with lev the Levenshtein distance by its
\* defining recurrence; it is the same for (b, a), lies in [0, 1] and is 1
\* exactly when a = b.
C33_NormalizedLevenshtein ==
    SimilarityOfStrings =>
        LET a == strings[1]
            b == strings[2]
        IN  /\ similarityValue.den = Max(Len(a), Len(b))
            /\ similarityValue.num = similarityValue.den - EditDistance(a, b)
            /\ similarityValue.num = similarityValue.den - EditDistance(b, a)
            /\ similarityValue.num \in 0..similarityValue.den
            /\ similarityValue.num = similarityValue.den <=> a = b

\* C33: calculateSimilarity was applied to two strings of different lengths
\* that are one insertion and one substitution apart
C33_Witness ==
    /\ strings = << "ab", "bbb" >>
    /\ similarityValue = [num |-> 1, den |-> 3]

\* C34: lastTranscriptions holds at most 5 entries: the lower-cased trimmed
\* texts of the most recent transcripts sent as transcriptionResult, in the
\* order they were sent; a transcript is sent exactly when it is appended.
C34_HistoryOfSent ==
    [][ /\ Len(lastTranscriptions') <= 5
        /\ lastTranscriptions' = [i \in 1..Len(sentLog') |-> trim(toLowerCase(sentLog'[i]))]
        /\ sentLog' # sentLog <=> lastTranscriptions' # lastTranscriptions ]_vars

\* C34: five transcripts were in the history when a sixth was sent
C34_Witness ==
    /\ Len(sentLog) = maxTranscriptionHistory
    /\ lastEvicted # ""
    /\ lastEvicted \notin Range(lastTranscriptions)

\* startCapture has passed its guard: a new session begins
SessionBegins == sessions' = sessions + 1

\* a flush path has built a Blob
BlobBuilt == Len(clips') = Len(clips) + 1

\* C35: whenever startCapture begins a new session the detector is idle and
\* speechBuffer and pendingAudioChunks are empty, and every clip is built
\* from audio of the session in which it is flushed.
C35_SessionsIsolated ==
    [][ /\ SessionBegins => ~isSpeaking /\ speechBuffer = << >> /\ pendingAudioChunks = << >>
        /\ BlobBuilt => \A k \in 1..Len(Last(clips').chunks) :
                            Last(clips').chunks[k].sess = sessions ]_vars

\* the chunks a recorder can deliver while the buffers are followed
DrainChunks == 1..((DetectorTicks * MonitorInterval) \div Timeslice)

\* C36: while the monitoring and buffer-processor timers keep firing, every
\* chunk pushed into speechBuffer is eventually taken out of it again (to be
\* submitted in a clip or discarded), with transcription ready or not and
\* with or without a speech-end.
C36_BuffersDrain ==
    \A id \in DrainChunks :
        (id \in ChunkIds(speechBuffer)) ~> (id \notin ChunkIds(speechBuffer))

\* C37: once every message has been handled and every handler has returned,
\* the main process's isCapturing equals the renderer's isRecording, and a
\* UI that was told audioCaptureStarted last has a renderer that records;
\* the companion has not been restarted.
C37_CaptureFlagsAgree ==
    (Quiet /\ restarts = 0) =>
        /\ isCapturing = isRecording
        /\ isListening => isRecording

\* C38: at most one analysis is in progress at any time, and after a click
\* on Start Over no analysis is in progress that was not cancelled.
C38_OneAnalysis ==
    [][ /\ Cardinality(InProgress') <= 1
        /\ startOverClicked => \A t \in InProgress' : t.cancelled ]_vars

====
